---- MODULE Spec2Model ----
(***************************************************************************)
(* Model of the SnaptixAI backend: the heuristic SpeechAnalyzer            *)
(* (backend/speech_analyzer.py) and the /analyze handler of backend/app.py.*)
(*                                                                         *)
(* Text is modelled at the character level: a string is a sequence of      *)
(* one-character strings, a token is such a sequence, a token list is a    *)
(* sequence of tokens.                                                     *)
(*                                                                         *)
(* Floats are modelled exactly as rationals.  A quotient the code computes *)
(* is a pair <<dividend, divisor>>; a divisor of 0 is the point where      *)
(* Python raises ZeroDivisionError.  Rounded metrics are kept as scaled    *)
(* integers: speech_rate and fluency_score in tenths (round(x, 1)),        *)
(* vocabulary_richness in thousandths (round(x, 3)), risk_score in units.  *)
(* round() is round-half-to-even, which is what Python does on the exactly *)
(* representable ties that occur within the bounds used here.              *)
(***************************************************************************)
EXTENDS Integers, Sequences, FiniteSets, TLC

----------------------------------------------------------------------------
(* Characters and the str / re primitives the analyzer calls. *)

UpperCase == <<"A", "B", "C", "D", "E", "F", "G", "H", "I", "J", "K", "L", "M", "N", "O", "P", "Q", "R", "S", "T", "U", "V", "W", "X", "Y", "Z">>
LowerCase == <<"a", "b", "c", "d", "e", "f", "g", "h", "i", "j", "k", "l", "m", "n", "o", "p", "q", "r", "s", "t", "u", "v", "w", "x", "y", "z">>
Digits == {"0", "1", "2", "3", "4", "5", "6", "7", "8", "9"}

Whitespace == {" ", "\t", "\n", "\r"}

WordChars == {UpperCase[i] : i \in 1..26} \cup {LowerCase[i] : i \in 1..26} \cup Digits \cup {"_"}

Min(a, b) == IF a <= b THEN a ELSE b

Max(a, b) == IF a >= b THEN a ELSE b

\* one character of str.lower()
lower_char(c) ==
    IF c \in {UpperCase[i] : i \in 1..26}
    THEN LowerCase[CHOOSE i \in 1..26 : UpperCase[i] = c]
    ELSE c

\* str.lower()
str_lower(text) == [i \in 1..Len(text) |-> lower_char(text[i])]

\* str.strip(): drop leading and trailing whitespace
str_strip(text) ==
    LET keep == {i \in 1..Len(text) : text[i] \notin Whitespace}
    IN  IF keep = {} THEN <<>>
        ELSE SubSeq(text, CHOOSE i \in keep : \A j \in keep : i <= j,
                          CHOOSE i \in keep : \A j \in keep : i >= j)

\* the least element of a non-empty set of integers
least(S) == CHOOSE i \in S : \A j \in S : i <= j

\* str.count(sub): non-overlapping occurrences, scanning left to right;
\* after a match the scan resumes behind it
RECURSIVE count_from(_, _, _)
count_from(text, sub, i) ==
    LET matches == {j \in i..(Len(text) - Len(sub) + 1) : SubSeq(text, j, j + Len(sub) - 1) = sub}
    IN  IF matches = {} THEN 0
        ELSE 1 + count_from(text, sub, least(matches) + Len(sub))

str_count(text, sub) == count_from(text, sub, 1)

\* the positions 1..Len(text), in order
positions(text) == [i \in 1..Len(text) |-> i]

\* re.sub(r'\s+', ' ', text): every run of whitespace becomes one space
re_sub_whitespace(text) ==
    LET kept == SelectSeq(positions(text),
                          LAMBDA i : ~(text[i] \in Whitespace /\ i > 1 /\ text[i - 1] \in Whitespace))
    IN  [n \in 1..Len(kept) |-> IF text[kept[n]] \in Whitespace THEN " " ELSE text[kept[n]]]

\* the maximal runs of characters of the class, in order
runs(text, class) ==
    LET starts == SelectSeq(positions(text),
                            LAMBDA i : text[i] \in class /\ (i = 1 \/ text[i - 1] \notin class))
        stop(i) == least({j \in (i + 1)..(Len(text) + 1) : j > Len(text) \/ text[j] \notin class})
    IN  [n \in 1..Len(starts) |-> SubSeq(text, starts[n], stop(starts[n]) - 1)]

\* re.findall(r'\b\w+\b', text): the maximal runs of word characters
re_findall_words(text) == runs(text, WordChars)

\* len(sentence.split()): the number of whitespace-separated chunks
str_split_count(text) ==
    Cardinality({i \in 1..Len(text) : text[i] \notin Whitespace /\ (i = 1 \/ text[i - 1] \in Whitespace)})

SentenceEnd == {".", "!", "?"}

\* re.split(r'[.!?]+', text): the pieces between runs of . ! ? ; a piece is
\* empty only before a leading or after a trailing run, or when text is empty
re_split_sentences(text) ==
    IF text = <<>> THEN << <<>> >>
    ELSE (IF text[1] \in SentenceEnd THEN << <<>> >> ELSE <<>>)
         \o runs(text, {text[i] : i \in 1..Len(text)} \ SentenceEnd)
         \o (IF text[Len(text)] \in SentenceEnd THEN << <<>> >> ELSE <<>>)

\* nltk.sent_tokenize(text) when the punkt resource is installed: a sentence
\* ends at a . ! ? that is followed by whitespace; the terminator stays in
\* the sentence and the whitespace between sentences is dropped
RECURSIVE punkt_from(_, _)
punkt_from(text, i) ==
    LET ends == {j \in i..(Len(text) - 1) : text[j] \in SentenceEnd /\ text[j + 1] \in Whitespace}
    IN  IF ends = {}
        THEN (IF i > Len(text) THEN <<>> ELSE <<SubSeq(text, i, Len(text))>>)
        ELSE <<SubSeq(text, i, least(ends))>> \o punkt_from(text, least(ends) + 2)

nltk_sent_tokenize(text) == punkt_from(text, 1)

\* round(): the integer nearest to num / den (den > 0), ties to the even one
round_half_even(num, den) ==
    LET q == num \div den
        r == num % den
    IN  IF 2 * r < den THEN q
        ELSE IF 2 * r > den THEN q + 1
        ELSE IF q % 2 = 0 THEN q ELSE q + 1

\* the sum of f over a finite set
RECURSIVE sum_over(_, _)
sum_over(S, f) ==
    IF S = {} THEN 0
    ELSE LET x == CHOOSE x \in S : TRUE IN f[x] + sum_over(S \ {x}, f)

----------------------------------------------------------------------------
(* SpeechAnalyzer.__init__: the lexical configuration. *)

FillerWordsInit ==
    {
    <<"u", "m">>,
    <<"u", "h">>,
    <<"e", "r">>,
    <<"a", "h">>,
    <<"w", "e", "l", "l">>,
    <<"y", "o", "u", " ", "k", "n", "o", "w">>,
    <<"l", "i", "k", "e">>,
    <<"s", "o">>,
    <<"b", "a", "s", "i", "c", "a", "l", "l", "y">>,
    <<"a", "c", "t", "u", "a", "l", "l", "y">>,
    <<"i", " ", "m", "e", "a", "n">>,
    <<"s", "o", "r", "t", " ", "o", "f">>,
    <<"k", "i", "n", "d", " ", "o", "f">> }

WordFindingIndicatorsInit ==
    {
    <<"t", "h", "i", "n", "g">>,
    <<"s", "t", "u", "f", "f">>,
    <<"w", "h", "a", "t", " ", "d", "o", " ", "y", "o", "u", " ", "c", "a", "l", "l", " ", "i", "t">>,
    <<"w", "h", "a", "t", "c", "h", "a", "m", "a", "c", "a", "l", "l", "i", "t">>,
    <<"t", "h", "i", "n", "g", "y">>,
    <<"w", "h", "a", "t", "s", "i", "t">>,
    <<"t", "h", "a", "t", " ", "t", "h", "i", "n", "g">>,
    <<"y", "o", "u", " ", "k", "n", "o", "w", " ", "w", "h", "a", "t", " ", "i", " ", "m", "e", "a", "n">> }

SemanticCategoriesInit ==
    [animals |->
        {
        <<"d", "o", "g">>,
        <<"c", "a", "t">>,
        <<"b", "i", "r", "d">>,
        <<"f", "i", "s", "h">>,
        <<"h", "o", "r", "s", "e">>,
        <<"c", "o", "w">>,
        <<"p", "i", "g">>,
        <<"s", "h", "e", "e", "p">>,
        <<"c", "h", "i", "c", "k", "e", "n">>,
        <<"d", "u", "c", "k">>,
        <<"r", "a", "b", "b", "i", "t">>,
        <<"m", "o", "u", "s", "e">>,
        <<"e", "l", "e", "p", "h", "a", "n", "t">>,
        <<"l", "i", "o", "n">>,
        <<"t", "i", "g", "e", "r">> },
     fruits |->
        {
        <<"a", "p", "p", "l", "e">>,
        <<"b", "a", "n", "a", "n", "a">>,
        <<"o", "r", "a", "n", "g", "e">>,
        <<"g", "r", "a", "p", "e">>,
        <<"s", "t", "r", "a", "w", "b", "e", "r", "r", "y">>,
        <<"p", "e", "a", "c", "h">>,
        <<"p", "e", "a", "r">>,
        <<"c", "h", "e", "r", "r", "y">>,
        <<"p", "l", "u", "m">>,
        <<"w", "a", "t", "e", "r", "m", "e", "l", "o", "n">>,
        <<"p", "i", "n", "e", "a", "p", "p", "l", "e">>,
        <<"m", "a", "n", "g", "o">> }]

----------------------------------------------------------------------------
(* State. *)

VARIABLES
    filler_words,             \* self.filler_words of the one shared analyzer
    word_finding_indicators,  \* self.word_finding_indicators
    semantic_categories,      \* self.semantic_categories
    pc,           \* per caller: where its analyze call / request stands
    via,          \* per caller: "direct" (analyze called) or "http" (POST /analyze)
    transcript,   \* per caller: the transcript argument
    metadata,     \* per caller: the metadata argument
    words,        \* per caller: local `words`
    sentences,    \* per caller: local `sentences`
    features,     \* per caller: the eight metrics, <<>> until computed
    risk_score,   \* per caller: local `risk_score`, <<>> until computed
    explanation,  \* per caller: local `explanation`, <<>> until computed
    result,       \* per caller: the dict analyze returned, <<>> if none
    error,        \* per caller: the exception analyze raised, <<>> if none
    response,     \* per caller: the HTTP response of /analyze, <<>> if none
    huggingface_api_key,  \* self.huggingface_api_key is set
    openai_api_key,       \* self.openai_api_key is set
    files,         \* the temporary files that exist
    t_pc,          \* per request: where its /transcribe handler stands
    content_type,  \* per request: audio.content_type of the upload
    remote,        \* per request: what the remote services answer when asked
    tmp_path,      \* per request: local `tmp_path`, <<>> until bound
    t_duration,    \* per request: transcribe's local `duration`
    t_transcript,  \* per request: transcribe's local `transcript`, <<>> for None
    t_confidence,  \* per request: transcribe's local `confidence`, in hundredths
    t_result,      \* per request: the dict transcribe returned, <<>> if none
    t_error,       \* per request: the exception in flight, <<>> if none
    t_response     \* per request: the HTTP response of /transcribe, <<>> if none

lexicon == <<filler_words, word_finding_indicators, semantic_categories>>

locals == <<words, sentences, features, risk_score, explanation>>

\* the analyzer and its callers
analysis == <<filler_words, word_finding_indicators, semantic_categories, pc, via,
              transcript, metadata, words, sentences, features, risk_score,
              explanation, result, error, response>>

\* the transcription service, the temporary directory and the requests to
\* /transcribe
service == <<huggingface_api_key, openai_api_key, files, t_pc, content_type, remote,
             tmp_path, t_duration, t_transcript, t_confidence, t_result, t_error,
             t_response>>

vars == <<filler_words, word_finding_indicators, semantic_categories, pc, via,
          transcript, metadata, words, sentences, features, risk_score,
          explanation, result, error, response,
          huggingface_api_key, openai_api_key, files, t_pc, content_type, remote,
          tmp_path, t_duration, t_transcript, t_confidence, t_result, t_error,
          t_response>>

----------------------------------------------------------------------------
(* Metadata: None, or a dict that may hold 'duration' and other keys. *)

NoMetadata == [is_none |-> TRUE, has_duration |-> FALSE, duration |-> 0, other_keys |-> FALSE]

EmptyMetadata == [is_none |-> FALSE, has_duration |-> FALSE, duration |-> 0, other_keys |-> FALSE]

OtherMetadata == [is_none |-> FALSE, has_duration |-> FALSE, duration |-> 0, other_keys |-> TRUE]

DurationMetadata(d) == [is_none |-> FALSE, has_duration |-> TRUE, duration |-> d, other_keys |-> FALSE]

----------------------------------------------------------------------------
(* The analyzer's pure stages. *)

\* the guard without its whitespace test: `not transcript` alone
is_blank_unstripped(text) == text = <<>>

\* `not transcript or not transcript.strip()`
is_blank(text) == text = <<>> \/ str_strip(text) = <<>>

clean_text(text) == str_strip(re_sub_whitespace(str_lower(text)))

tokenize_words(text) == SelectSeq(re_findall_words(text), LAMBDA word : Len(word) > 1)

\* punkt_ok: whether nltk.sent_tokenize finds its punkt resource; when it
\* raises, the bare except takes the regular-expression fallback
tokenize_sentences(text, punkt_ok) ==
    IF punkt_ok
    THEN SelectSeq(nltk_sent_tokenize(text), LAMBDA s : Len(str_strip(s)) > 0)
    ELSE LET pieces == re_split_sentences(text)
             kept == SelectSeq(pieces, LAMBDA s : str_strip(s) # <<>>)
         IN  [i \in 1..Len(kept) |-> str_strip(kept[i])]

\* `not metadata or 'duration' not in metadata`
duration_missing(md) ==
    \/ md.is_none \/ (~md.has_duration /\ ~md.other_keys)   \* not metadata
    \/ ~md.has_duration                                     \* 'duration' not in metadata

\* the duration the measured formula divides by
effective_duration(md) == IF md.duration <= 0 THEN 30 ELSE md.duration

\* <<dividend, divisor>> of the division in _calculate_speech_rate
speech_rate_quotient(wordlist, md) ==
    IF duration_missing(md) THEN <<Len(wordlist), 1>>
    ELSE <<Len(wordlist), effective_duration(md)>>

\* words per minute, in tenths
calculate_speech_rate(wordlist, md) ==
    IF duration_missing(md)
    THEN 10 * Max(60, Min(200, Len(wordlist) * 2))
    ELSE round_half_even(600 * Len(wordlist), effective_duration(md))

pause_indicators == << <<".", ".", ".">>, <<".", ".">>, <<"u", "m">>, <<"u", "h">>, <<"e", "r">>, <<"a", "h">> >>

\* the pause count from punctuation alone, the pause markers left out
estimate_pause_count_punctuation(text) ==
    Min(str_count(text, <<",">>) + str_count(text, <<";">>) * 2, 20)

estimate_pause_count(text) ==
    LET low == str_lower(text)
        marked == sum_over(1..Len(pause_indicators),
                           [i \in 1..Len(pause_indicators) |-> str_count(low, pause_indicators[i])])
        total == marked + str_count(text, <<",">>) + str_count(text, <<";">>) * 2
    IN  Min(total, 20)

\* the divisor without its floor of 1: len(words)
word_divisor_unguarded(wordlist) == Len(wordlist)

\* max(len(words), 1), the divisor of the per-word ratios
word_divisor(wordlist) == Max(Len(wordlist), 1)

\* <<dividend, divisor>> of the type-token ratio
vocabulary_quotient(wordlist) ==
    IF wordlist = <<>> THEN <<0, 1>>
    ELSE <<Cardinality({wordlist[i] : i \in 1..Len(wordlist)}), Len(wordlist)>>

\* type-token ratio, in thousandths
calculate_vocabulary_richness(wordlist) ==
    IF wordlist = <<>> THEN 0
    ELSE round_half_even(1000 * vocabulary_quotient(wordlist)[1], vocabulary_quotient(wordlist)[2])

\* Counter(words)[word]
word_count(wordlist, word) == Cardinality({i \in 1..Len(wordlist) : wordlist[i] = word})

\* repetitions / max(len(words), 1), as <<dividend, divisor>>
analyze_repetitions(wordlist) ==
    IF wordlist = <<>> THEN <<0, 1>>
    ELSE LET distinct == {wordlist[i] : i \in 1..Len(wordlist)}
             often == {w \in distinct : word_count(wordlist, w) > 2}
             repetitions == sum_over(often, [w \in often |-> word_count(wordlist, w) - 1])
         IN  <<repetitions, word_divisor(wordlist)>>

\* min(difficulty_score / max(len(words), 1), 1.0), as <<dividend, divisor>>
analyze_word_finding(text, wordlist) ==
    LET low == str_lower(text)
        found == sum_over(word_finding_indicators,
                          [ind \in word_finding_indicators |-> str_count(low, ind)])
        difficulty == found + str_count(text, <<".", ".", ".">>)
        n == word_divisor(wordlist)
    IN  IF n = 0 THEN <<difficulty, 0>> ELSE <<Min(difficulty, n), n>>

\* sum(1 for word in words if word in self.filler_words)
filler_count(wordlist) == Cardinality({i \in 1..Len(wordlist) : wordlist[i] \in filler_words})

\* filler_count / max(len(words), 1), as <<dividend, divisor>>
filler_quotient(wordlist) == <<filler_count(wordlist), word_divisor(wordlist)>>

\* score = 10.0 - filler_ratio * 30 - repetition * 2 - word_finding * 3,
\* rounded to one decimal, in tenths, before the clamp
fluency_rounded(text, wordlist) ==
    LET f == filler_quotient(wordlist)
        r == analyze_repetitions(wordlist)
        w == analyze_word_finding(text, wordlist)
        den == f[2] * r[2] * w[2]
        num == 100 * den - 300 * f[1] * r[2] * w[2]
                         - 20 * r[1] * f[2] * w[2]
                         - 30 * w[1] * f[2] * r[2]
    IN  round_half_even(num, den)

\* the fluency score without its clamp to [0, 10]
calculate_fluency_score_unclamped(text, wordlist) == fluency_rounded(text, wordlist)

\* fluency score, in tenths
calculate_fluency_score(text, wordlist) == Max(0, Min(100, fluency_rounded(text, wordlist)))

\* len(category_words) / max(len(words), 1), as <<dividend, divisor>>
analyze_semantic_fluency(wordlist) ==
    LET cats == DOMAIN semantic_categories
        category_words == {wordlist[i] : i \in {j \in 1..Len(wordlist) :
                              \E cat \in cats : wordlist[j] \in semantic_categories[cat]}}
    IN  <<Cardinality(category_words), word_divisor(wordlist)>>

\* mean of min(words_in_sentence / 15.0, 1.0), as <<dividend, divisor>>
analyze_syntactic_complexity(sents) ==
    IF sents = <<>> THEN <<0, 1>>
    ELSE <<sum_over(1..Len(sents), [i \in 1..Len(sents) |-> Min(str_split_count(sents[i]), 15)]),
           15 * Len(sents)>>

----------------------------------------------------------------------------
(* The risk aggregator and the explanation generator. *)

\* the speech-rate bands with fast speech worth 5 points
speech_rate_points_fast_five(speech_rate) ==
    IF speech_rate < 800 THEN 25
    ELSE IF speech_rate < 1000 THEN 15
    ELSE IF speech_rate > 2000 THEN 5
    ELSE 0

\* the speech-rate bands with 80.0 itself counted as very slow
speech_rate_points_inclusive(speech_rate) ==
    IF speech_rate <= 800 THEN 25
    ELSE IF speech_rate < 1000 THEN 15
    ELSE IF speech_rate > 2000 THEN 10
    ELSE 0

speech_rate_points(speech_rate) ==
    IF speech_rate < 800 THEN 25
    ELSE IF speech_rate < 1000 THEN 15
    ELSE IF speech_rate > 2000 THEN 10
    ELSE 0

\* the pause bands with the points of the two upper bands exchanged
pause_count_points_swapped(pause_count) ==
    IF pause_count > 15 THEN 10
    ELSE IF pause_count > 10 THEN 20
    ELSE IF pause_count > 5 THEN 5
    ELSE 0

pause_count_points(pause_count) ==
    IF pause_count > 15 THEN 20
    ELSE IF pause_count > 10 THEN 10
    ELSE IF pause_count > 5 THEN 5
    ELSE 0

vocabulary_points(vocab_richness) ==
    IF vocab_richness < 300 THEN 25
    ELSE IF vocab_richness < 400 THEN 15
    ELSE IF vocab_richness < 500 THEN 5
    ELSE 0

fluency_points(fluency) ==
    IF fluency < 30 THEN 25
    ELSE IF fluency < 50 THEN 15
    ELSE IF fluency < 70 THEN 5
    ELSE 0

\* round(risk_score, 0): the banded points plus word_finding_difficulty * 20
\* plus repetition_score * 15, rounded to a whole number
risk_rounded(metrics) ==
    LET w == metrics.word_finding_difficulty
        r == metrics.repetition_score
        bands == speech_rate_points(metrics.speech_rate)
                 + pause_count_points(metrics.pause_count)
                 + vocabulary_points(metrics.vocabulary_richness)
                 + fluency_points(metrics.fluency_score)
    IN  round_half_even(bands * w[2] * r[2] + 20 * w[1] * r[2] + 15 * r[1] * w[2], w[2] * r[2])

\* the risk score without its clamp to [0, 100]
calculate_risk_score_unclamped(metrics) == risk_rounded(metrics)

calculate_risk_score(metrics) == Min(100, Max(0, risk_rounded(metrics)))

Sentence(kind, value) == [kind |-> kind, value |-> value]

\* the explanation with the two upper tiers merged into the mild one
generate_explanation_two_tiers(score, metrics) ==
    LET tier == IF score < 30 THEN <<Sentence("overall_normal", 0)>>
                ELSE <<Sentence("overall_mild", 0)>>
        rate == IF metrics.speech_rate < 800
                THEN <<Sentence("speech_rate_slow", metrics.speech_rate)>>
                ELSE IF metrics.speech_rate > 2000
                THEN <<Sentence("speech_rate_fast", metrics.speech_rate)>>
                ELSE <<>>
        pauses == IF metrics.pause_count > 10
                  THEN <<Sentence("frequent_pauses", metrics.pause_count)>>
                  ELSE <<>>
        vocab == IF metrics.vocabulary_richness < 400
                 THEN <<Sentence("low_vocabulary", round_half_even(metrics.vocabulary_richness, 10))>>
                 ELSE <<>>
        fluency == IF metrics.fluency_score < 50
                   THEN <<Sentence("low_fluency", metrics.fluency_score)>>
                   ELSE <<>>
    IN  tier \o rate \o pauses \o vocab \o fluency

\* the explanation with the pause sentence moved behind the fluency sentence
generate_explanation_pauses_last(score, metrics) ==
    LET tier == IF score < 30 THEN <<Sentence("overall_normal", 0)>>
                ELSE IF score < 70 THEN <<Sentence("overall_mild", 0)>>
                ELSE <<Sentence("overall_significant", 0)>>
        rate == IF metrics.speech_rate < 800
                THEN <<Sentence("speech_rate_slow", metrics.speech_rate)>>
                ELSE IF metrics.speech_rate > 2000
                THEN <<Sentence("speech_rate_fast", metrics.speech_rate)>>
                ELSE <<>>
        pauses == IF metrics.pause_count > 10
                  THEN <<Sentence("frequent_pauses", metrics.pause_count)>>
                  ELSE <<>>
        vocab == IF metrics.vocabulary_richness < 400
                 THEN <<Sentence("low_vocabulary", round_half_even(metrics.vocabulary_richness, 10))>>
                 ELSE <<>>
        fluency == IF metrics.fluency_score < 50
                   THEN <<Sentence("low_fluency", metrics.fluency_score)>>
                   ELSE <<>>
    IN  tier \o rate \o vocab \o fluency \o pauses

\* the sentences of the explanation, in order; a sentence that interpolates
\* a metric carries the number it prints: speech rate and fluency in tenths
\* (:.1f), the pause count, the vocabulary percentage (vocab * 100, :.0f)
generate_explanation(score, metrics) ==
    LET tier == IF score < 30 THEN <<Sentence("overall_normal", 0)>>
                ELSE IF score < 70 THEN <<Sentence("overall_mild", 0)>>
                ELSE <<Sentence("overall_significant", 0)>>
        rate == IF metrics.speech_rate < 800
                THEN <<Sentence("speech_rate_slow", metrics.speech_rate)>>
                ELSE IF metrics.speech_rate > 2000
                THEN <<Sentence("speech_rate_fast", metrics.speech_rate)>>
                ELSE <<>>
        pauses == IF metrics.pause_count > 10
                  THEN <<Sentence("frequent_pauses", metrics.pause_count)>>
                  ELSE <<>>
        vocab == IF metrics.vocabulary_richness < 400
                 THEN <<Sentence("low_vocabulary", round_half_even(metrics.vocabulary_richness, 10))>>
                 ELSE <<>>
        fluency == IF metrics.fluency_score < 50
                   THEN <<Sentence("low_fluency", metrics.fluency_score)>>
                   ELSE <<>>
        explanations == tier \o rate \o pauses \o vocab \o fluency
    IN  IF explanations = <<>>
        THEN <<Sentence("all_normal", 0)>>
        ELSE explanations

\* the eight metrics analyze computes from its locals
extract_features(text, wordlist, sents, md) ==
    [speech_rate |-> calculate_speech_rate(wordlist, md),
     pause_count |-> estimate_pause_count(text),
     vocabulary_richness |-> calculate_vocabulary_richness(wordlist),
     fluency_score |-> calculate_fluency_score(text, wordlist),
     semantic_fluency |-> analyze_semantic_fluency(wordlist),
     syntactic_complexity |-> analyze_syntactic_complexity(sents),
     repetition_score |-> analyze_repetitions(wordlist),
     word_finding_difficulty |-> analyze_word_finding(text, wordlist)]

\* the divisors of the divisions the extractors execute; a 0 among them is
\* a ZeroDivisionError
extractor_divisors(text, wordlist, sents, md) ==
    {speech_rate_quotient(wordlist, md)[2],
     vocabulary_quotient(wordlist)[2],
     filler_quotient(wordlist)[2],
     analyze_repetitions(wordlist)[2],
     analyze_word_finding(text, wordlist)[2],
     analyze_semantic_fluency(wordlist)[2],
     analyze_syntactic_complexity(sents)[2]}

\* the dict analyze returns
analysis_result(score, expl, metrics) ==
    [riskScore |-> score,
     explanation |-> expl,
     metrics |-> [speechRate |-> metrics.speech_rate,
                  pauseCount |-> metrics.pause_count,
                  vocabularyRichness |-> metrics.vocabulary_richness,
                  fluencyScore |-> metrics.fluency_score]]

----------------------------------------------------------------------------
(* Inputs. *)

MaxPieces == 3

Pieces == { <<" ">>, <<"U", "m">>, <<".", ".", ".">>, <<"t", "h", "i", "n", "g">>,
            <<";">>, <<"a">> }

\* every concatenation of at most k pieces
RECURSIVE Concatenations(_)
Concatenations(k) ==
    IF k = 0 THEN {<<>>}
    ELSE LET shorter == Concatenations(k - 1)
         IN  shorter \cup {s \o piece : s \in shorter, piece \in Pieces}

SarahTranscript ==
    <<"H", "e", "l", "l", "o", ",", " ", "m", "y", " ", "n", "a", "m", "e", " ", "i", "s", " ", "S", "a", "r", "a", "h", " ", "a", "n", "d", " ", "I", "'", "m", " ", "h", "e", "r", "e", " ", "t", "o", "d", "a", "y", " ", "t", "o", " ", "t", "a", "l", "k", " ", "a", "b", "o", "u", "t", " ", "m", "y", " ", "d", "a", "i", "l", "y", " ", "a", "c", "t", "i", "v", "i", "t", "i", "e", "s", ".">>

HesitantTranscript == <<"u", "m", ".", ".", ".", "u", "m", ".", ".", ".", "u", "m", ".", ".", ".", "u", "m", ".", ".", ".", ";", ";">>

RepeatingTranscript == <<"U", "m", " ", "u", "m", " ", "u", "m", " ", "t", "h", "i", "n", "g">>

BlankTranscript == <<" ", "\n", "\t", " ">>

AnimalTranscript == <<"d", "o", "g", " ", "c", "a", "t", ".", " ", "d", "o", "g", "!", " ", "a">>

YouKnowTranscript ==
    <<"U", "m", ",", " ", "y", "o", "u", " ", "k", "n", "o", "w", " ", "t", "h", "i", "n", "g">>

Transcripts ==
    Concatenations(MaxPieces)
    \cup {SarahTranscript, HesitantTranscript, RepeatingTranscript, BlankTranscript, AnimalTranscript,
          YouKnowTranscript}

Durations == {-5, 0, 1, 7}

Metadatas == {NoMetadata, EmptyMetadata, OtherMetadata} \cup {DurationMetadata(d) : d \in Durations}

\* AnalysisRequest.metadata is a dict (default {}), never None
RequestMetadatas == Metadatas \ {NoMetadata}

----------------------------------------------------------------------------
(* Initial state: the module-level analyzer is constructed, no call made. *)

\* no request to /transcribe is being handled and no temporary file exists
ServiceIdle(requests) ==
    /\ files = {}
    /\ t_pc = [r \in requests |-> "idle"]
    /\ content_type = [r \in requests |-> <<>>]
    /\ remote = [r \in requests |-> <<>>]
    /\ tmp_path = [r \in requests |-> <<>>]
    /\ t_duration = [r \in requests |-> <<>>]
    /\ t_transcript = [r \in requests |-> <<>>]
    /\ t_confidence = [r \in requests |-> <<>>]
    /\ t_result = [r \in requests |-> <<>>]
    /\ t_error = [r \in requests |-> <<>>]
    /\ t_response = [r \in requests |-> <<>>]

\* TranscriptionService() in an environment without API keys
ServiceWithoutKeys ==
    /\ huggingface_api_key = FALSE
    /\ openai_api_key = FALSE
    /\ ServiceIdle({})

\* SpeechAnalyzer() constructed, no call made
AnalysisIdle(callers) ==
    /\ filler_words = FillerWordsInit
    /\ word_finding_indicators = WordFindingIndicatorsInit
    /\ semantic_categories = SemanticCategoriesInit
    /\ pc = [c \in callers |-> "idle"]
    /\ via = [c \in callers |-> "direct"]
    /\ transcript = [c \in callers |-> <<>>]
    /\ metadata = [c \in callers |-> NoMetadata]
    /\ words = [c \in callers |-> <<>>]
    /\ sentences = [c \in callers |-> <<>>]
    /\ features = [c \in callers |-> <<>>]
    /\ risk_score = [c \in callers |-> <<>>]
    /\ explanation = [c \in callers |-> <<>>]
    /\ result = [c \in callers |-> <<>>]
    /\ error = [c \in callers |-> <<>>]
    /\ response = [c \in callers |-> <<>>]

InitFor(callers) ==
    /\ AnalysisIdle(callers)
    /\ ServiceWithoutKeys

Callers == DOMAIN pc

\* a caller that is not inside a call and holds no outcome
at_rest(c) == pc[c] = "idle"

\* a fresh activation: arguments bound, locals unset
enter(c, how, text, md, where) ==
    /\ via' = [via EXCEPT ![c] = how]
    /\ transcript' = [transcript EXCEPT ![c] = text]
    /\ metadata' = [metadata EXCEPT ![c] = md]
    /\ words' = [words EXCEPT ![c] = <<>>]
    /\ sentences' = [sentences EXCEPT ![c] = <<>>]
    /\ features' = [features EXCEPT ![c] = <<>>]
    /\ risk_score' = [risk_score EXCEPT ![c] = <<>>]
    /\ explanation' = [explanation EXCEPT ![c] = <<>>]
    /\ result' = [result EXCEPT ![c] = <<>>]
    /\ error' = [error EXCEPT ![c] = <<>>]
    /\ pc' = [pc EXCEPT ![c] = where]

----------------------------------------------------------------------------
(* SpeechAnalyzer.analyze, one action per stage of its body. *)

\* analyze(transcript, metadata) is called directly, with arguments from the
\* given sets
Call(c, texts, mds) ==
    /\ at_rest(c)
    /\ \E text \in texts, md \in mds : enter(c, "direct", text, md, "validate")
    /\ response' = [response EXCEPT ![c] = <<>>]
    /\ UNCHANGED <<lexicon, service, service>>

\* the guard at the top of analyze
Validate(c) ==
    /\ pc[c] = "validate"
    /\ IF is_blank(transcript[c])
       THEN /\ error' = [error EXCEPT ![c] = <<[type |-> "ValueError", message |-> "Transcript cannot be empty"]>>]
            /\ pc' = [pc EXCEPT ![c] = "raised"]
       ELSE /\ pc' = [pc EXCEPT ![c] = "tokenize"]
            /\ UNCHANGED error
    /\ UNCHANGED <<lexicon, service, via, transcript, metadata, locals, result, response>>

\* Tokenize with `words` kept on the analyzer instead of in the call: the
\* assignment is seen by every call in progress
TokenizeShared(c) ==
    /\ pc[c] = "tokenize"
    /\ \E punkt_ok \in BOOLEAN :
         LET cleaned_text == clean_text(transcript[c])
         IN  /\ words' = [d \in Callers |-> tokenize_words(cleaned_text)]
             /\ sentences' = [sentences EXCEPT ![c] = tokenize_sentences(cleaned_text, punkt_ok)]
    /\ pc' = [pc EXCEPT ![c] = "extract"]
    /\ UNCHANGED <<lexicon, service, via, transcript, metadata, features, risk_score, explanation,
                   result, error, response>>

\* cleaned_text, words, sentences
Tokenize(c) ==
    /\ pc[c] = "tokenize"
    /\ \E punkt_ok \in BOOLEAN :
         LET cleaned_text == clean_text(transcript[c])
         IN  /\ words' = [words EXCEPT ![c] = tokenize_words(cleaned_text)]
             /\ sentences' = [sentences EXCEPT ![c] = tokenize_sentences(cleaned_text, punkt_ok)]
    /\ pc' = [pc EXCEPT ![c] = "extract"]
    /\ UNCHANGED <<lexicon, service, via, transcript, metadata, features, risk_score, explanation,
                   result, error, response>>

\* Extract that also records the words it saw as filler words of the
\* analyzer (self.filler_words.update(words))
ExtractLearning(c) ==
    /\ pc[c] = "extract"
    /\ features' = [features EXCEPT ![c] =
           <<extract_features(transcript[c], words[c], sentences[c], metadata[c])>>]
    /\ filler_words' = filler_words \cup {words[c][i] : i \in 1..Len(words[c])}
    /\ pc' = [pc EXCEPT ![c] = "aggregate"]
    /\ UNCHANGED <<word_finding_indicators, semantic_categories, via, transcript, metadata,
                   words, sentences, risk_score, explanation, result, error, response,
                   service>>

\* the eight feature extractors
Extract(c) ==
    /\ pc[c] = "extract"
    /\ IF 0 \in extractor_divisors(transcript[c], words[c], sentences[c], metadata[c])
       THEN /\ error' = [error EXCEPT ![c] = <<[type |-> "ZeroDivisionError", message |-> "division by zero"]>>]
            /\ pc' = [pc EXCEPT ![c] = "raised"]
            /\ UNCHANGED features
       ELSE /\ features' = [features EXCEPT ![c] =
                   <<extract_features(transcript[c], words[c], sentences[c], metadata[c])>>]
            /\ pc' = [pc EXCEPT ![c] = "aggregate"]
            /\ UNCHANGED error
    /\ UNCHANGED <<lexicon, service, via, transcript, metadata, words, sentences, risk_score,
                   explanation, result, response>>

\* risk_score = self._calculate_risk_score({...})
Aggregate(c) ==
    /\ pc[c] = "aggregate"
    /\ risk_score' = [risk_score EXCEPT ![c] = <<calculate_risk_score(features[c][1])>>]
    /\ pc' = [pc EXCEPT ![c] = "explain"]
    /\ UNCHANGED <<lexicon, service, via, transcript, metadata, words, sentences, features,
                   explanation, result, error, response>>

\* explanation = self._generate_explanation(risk_score, {...})
Explain(c) ==
    /\ pc[c] = "explain"
    /\ explanation' = [explanation EXCEPT ![c] =
            <<generate_explanation(risk_score[c][1], features[c][1])>>]
    /\ pc' = [pc EXCEPT ![c] = "return"]
    /\ UNCHANGED <<lexicon, service, via, transcript, metadata, words, sentences, features,
                   risk_score, result, error, response>>

\* return {'riskScore': int(risk_score), 'explanation': ..., 'metrics': {...}}
Return(c) ==
    /\ pc[c] = "return"
    /\ result' = [result EXCEPT ![c] =
            <<analysis_result(risk_score[c][1], explanation[c][1], features[c][1])>>]
    /\ pc' = [pc EXCEPT ![c] = "returned"]
    /\ UNCHANGED <<lexicon, service, via, transcript, metadata, locals, error, response>>

----------------------------------------------------------------------------
(* POST /analyze (app.analyze_speech). *)

\* `except Exception as e: raise HTTPException(500, f"Analysis failed: {str(e)}")`
\* str() of an HTTPException is "<status_code>: <detail>"
analysis_failed(exc) ==
    [status |-> 500,
     detail |-> <<"Analysis failed: ", exc.message>>,
     body |-> <<>>]

\* the handler up to the call of speech_analyzer.analyze; the HTTPException
\* raised for a blank transcript is raised inside the try block, and
\* HTTPException is a subclass of Exception
AnalyzeSpeech(c, texts, mds) ==
    /\ at_rest(c)
    /\ \E text \in texts, md \in mds :
         IF str_strip(text) = <<>>
         THEN /\ enter(c, "http", text, md, "responded")
              /\ response' = [response EXCEPT ![c] =
                     <<analysis_failed([type |-> "HTTPException",
                                        message |-> "400: Transcript cannot be empty"])>>]
         ELSE /\ enter(c, "http", text, md, "validate")
              /\ response' = [response EXCEPT ![c] = <<>>]
    /\ UNCHANGED <<lexicon, service, service>>

\* the handler after analyze: AnalysisResponse(...) of the returned dict, or
\* the except clause for what analyze raised
Respond(c) ==
    /\ via[c] = "http"
    /\ pc[c] \in {"returned", "raised"}
    /\ response' = [response EXCEPT ![c] =
            IF pc[c] = "returned"
            THEN <<[status |-> 200, detail |-> <<>>, body |-> result[c]]>>
            ELSE <<analysis_failed(error[c][1])>>]
    /\ pc' = [pc EXCEPT ![c] = "responded"]
    /\ UNCHANGED <<lexicon, service, via, transcript, metadata, locals, result, error>>

\* the caller is done with the outcome of its call or request: nothing of
\* the activation survives it (the pipeline keeps no state across calls)
Release(c) ==
    /\ \/ via[c] = "direct" /\ pc[c] \in {"returned", "raised"}
       \/ pc[c] = "responded"
    /\ enter(c, "direct", <<>>, NoMetadata, "idle")
    /\ response' = [response EXCEPT ![c] = <<>>]
    /\ UNCHANGED <<lexicon, service, service>>

----------------------------------------------------------------------------
(* One client at a time: any sequence of direct calls and requests. *)

Init == InitFor({1})

Next ==
    \/ \E c \in Callers : Call(c, Transcripts, Metadatas)
    \/ \E c \in Callers : AnalyzeSpeech(c, Transcripts, RequestMetadatas)
    \/ \E c \in Callers : Validate(c)
    \/ \E c \in Callers : Tokenize(c)
    \/ \E c \in Callers : Extract(c)
    \/ \E c \in Callers : Aggregate(c)
    \/ \E c \in Callers : Explain(c)
    \/ \E c \in Callers : Return(c)
    \/ \E c \in Callers : Respond(c)
    \/ \E c \in Callers : Release(c)

Spec == Init /\ [][Next]_vars

----------------------------------------------------------------------------
(* Several clients of the one shared analyzer, their calls interleaved      *)
(* stage by stage.                                                          *)

NumCallers == 2

ThingTranscript == <<"t", "h", "i", "n", "g">>

ConcTranscripts == {ThingTranscript, RepeatingTranscript, <<" ">>}

ConcMetadatas == {NoMetadata, DurationMetadata(1)}

ConcInit == InitFor(1..NumCallers)

ConcNext ==
    \/ \E c \in Callers : Call(c, ConcTranscripts, ConcMetadatas)
    \/ \E c \in Callers : Validate(c)
    \/ \E c \in Callers : Tokenize(c)
    \/ \E c \in Callers : Extract(c)
    \/ \E c \in Callers : Aggregate(c)
    \/ \E c \in Callers : Explain(c)
    \/ \E c \in Callers : Return(c)
    \/ \E c \in Callers : Release(c)

SpecConc == ConcInit /\ [][ConcNext]_vars

\* analyze run from entry to return with nothing else running
run_alone(text, md) ==
    LET cleaned_text == clean_text(text)
        wordlist == tokenize_words(cleaned_text)
        sents == tokenize_sentences(cleaned_text, TRUE)
        metrics == extract_features(text, wordlist, sents, md)
        score == calculate_risk_score(metrics)
    IN  analysis_result(score, generate_explanation(score, metrics), metrics)

----------------------------------------------------------------------------
(* The aggregator on its own: two feature vectors that differ in           *)
(* pause_count only, each handed to _calculate_risk_score.                  *)

MaxPauseCount == 17

SpeechRates == {600, 900, 2100}

VocabularyValues == {250, 350, 1000}

FluencyValues == {0, 40, 100}

DifficultyValues == {<<0, 1>>, <<1, 2>>}

RepetitionValues == {<<0, 1>>, <<3, 4>>}

FeatureVector(sr, p, v, f, w, r) ==
    [speech_rate |-> sr, pause_count |-> p, vocabulary_richness |-> v,
     fluency_score |-> f, semantic_fluency |-> <<0, 1>>,
     syntactic_complexity |-> <<0, 1>>, repetition_score |-> r,
     word_finding_difficulty |-> w]

RiskInit ==
    /\ filler_words = FillerWordsInit
    /\ word_finding_indicators = WordFindingIndicatorsInit
    /\ semantic_categories = SemanticCategoriesInit
    /\ pc = [c \in 1..2 |-> "aggregate"]
    /\ via = [c \in 1..2 |-> "direct"]
    /\ transcript = [c \in 1..2 |-> <<>>]
    /\ metadata = [c \in 1..2 |-> NoMetadata]
    /\ words = [c \in 1..2 |-> <<>>]
    /\ sentences = [c \in 1..2 |-> <<>>]
    /\ \E sr \in SpeechRates, v \in VocabularyValues, f \in FluencyValues,
          w \in DifficultyValues, r \in RepetitionValues,
          p1 \in 0..MaxPauseCount, p2 \in 0..MaxPauseCount :
            /\ p1 <= p2
            /\ features = <<  <<FeatureVector(sr, p1, v, f, w, r)>>,
                              <<FeatureVector(sr, p2, v, f, w, r)>>  >>
    /\ risk_score = [c \in 1..2 |-> <<>>]
    /\ explanation = [c \in 1..2 |-> <<>>]
    /\ result = [c \in 1..2 |-> <<>>]
    /\ error = [c \in 1..2 |-> <<>>]
    /\ response = [c \in 1..2 |-> <<>>]
    /\ ServiceWithoutKeys

RiskNext == \E c \in Callers : Aggregate(c)

SpecRisk == RiskInit /\ [][RiskNext]_vars

----------------------------------------------------------------------------
(* Properties of analyze and of POST /analyze, under Spec. *)

\* C1 -- every result analyze returns, whatever the transcript and the
\* metadata, carries a whole-number riskScore with 0 <= riskScore <= 100.
C1_RiskScoreInRange ==
    \A c \in Callers : result[c] # <<>> => result[c][1].riskScore \in 0..100

\* a call has returned whose unclamped score exceeds 100
C1_Witness ==
    \E c \in Callers :
        /\ pc[c] = "returned"
        /\ risk_rounded(features[c][1]) > 100
        /\ result[c][1].riskScore = 100

\* C2 -- analyze called with an empty or whitespace-only transcript stops
\* at its guard with ValueError("Transcript cannot be empty"): it never gets
\* past the guard, computes no words, features, score or explanation, and
\* returns no result.
C2_BlankTranscriptRaises ==
    \A c \in Callers :
        (via[c] = "direct" /\ pc[c] # "idle" /\ str_strip(transcript[c]) = <<>>) =>
            /\ pc[c] \in {"validate", "raised"}
            /\ words[c] = <<>> /\ sentences[c] = <<>>
            /\ features[c] = <<>> /\ risk_score[c] = <<>> /\ explanation[c] = <<>>
            /\ result[c] = <<>>
            /\ pc[c] = "raised" =>
                   error[c] = <<[type |-> "ValueError", message |-> "Transcript cannot be empty"]>>

\* analyze has raised for a transcript of whitespace characters only
C2_Witness ==
    \E c \in Callers :
        /\ via[c] = "direct" /\ pc[c] = "raised"
        /\ transcript[c] # <<>> /\ str_strip(transcript[c]) = <<>>

\* C3 -- analyze called with a transcript that has a non-whitespace
\* character never raises, whatever the metadata (None, empty, duration
\* positive, zero or negative): no division it executes has divisor 0, also
\* when the transcript yields no word token, and once it has returned there
\* is a result.
C3_NonBlankNeverFails ==
    \A c \in Callers :
        (pc[c] # "idle" /\ str_strip(transcript[c]) # <<>>) =>
            /\ pc[c] # "raised"
            /\ error[c] = <<>>
            /\ pc[c] \in {"returned", "responded"} => result[c] # <<>>
            /\ via[c] = "http" /\ pc[c] = "responded" => response[c][1].status = 200

\* analyze has returned for a transcript without any word token and a
\* metadata bag whose duration is not positive
C3_Witness ==
    \E c \in Callers :
        /\ pc[c] = "returned" /\ result[c] # <<>>
        /\ words[c] = <<>>
        /\ metadata[c].has_duration /\ metadata[c].duration <= 0

\* C5 -- in every result, vocabularyRichness lies in [0, 1] (0..1000
\* thousandths) and fluencyScore in [0, 10] (0..100 tenths), and
\* vocabularyRichness is 0 when there is no word token.
C5_MetricsBounded ==
    \A c \in Callers :
        result[c] # <<>> =>
            /\ result[c][1].metrics.vocabularyRichness \in 0..1000
            /\ result[c][1].metrics.fluencyScore \in 0..100
            /\ words[c] = <<>> => result[c][1].metrics.vocabularyRichness = 0

\* a call has returned whose fluency score before the clamp is negative
C5_Witness ==
    \E c \in Callers :
        /\ pc[c] = "returned"
        /\ fluency_rounded(transcript[c], words[c]) < 0
        /\ result[c][1].metrics.fluencyScore = 0

\* C6 -- a request to /analyze whose transcript is empty or whitespace-only
\* is answered with status 400 and detail 'Transcript cannot be empty'.
C6_BlankRequestIs400 ==
    \A c \in Callers :
        (via[c] = "http" /\ pc[c] = "responded" /\ str_strip(transcript[c]) = <<>>) =>
            /\ response[c][1].status = 400
            /\ response[c][1].detail = <<"Transcript cannot be empty">>

\* C7 -- speech_rate is the measured (word_count / duration) * 60 exactly
\* when metadata carries a duration > 0, and the estimate
\* clamp(word_count * 2.0, 60, 200) otherwise, a non-positive duration included.
C7_NonPositiveDurationEstimates ==
    \A c \in Callers :
        features[c] # <<>> =>
            features[c][1].speech_rate =
                IF metadata[c].has_duration /\ metadata[c].duration > 0
                THEN round_half_even(600 * Len(words[c]), metadata[c].duration)
                ELSE 10 * Max(60, Min(200, Len(words[c]) * 2))

\* C10 (as stated) -- for the Sarah transcript without metadata analyze
\* reports pauseCount = 1 and speechRate = 60.0, from 15 word tokens.
C10_AsStated ==
    \A c \in Callers :
        (pc[c] = "returned" /\ transcript[c] = SarahTranscript
            /\ metadata[c] \in {NoMetadata, EmptyMetadata}) =>
            /\ result[c][1].metrics.pauseCount = 1
            /\ result[c][1].metrics.speechRate = 600
            /\ Len(words[c]) = 15

\* C10 (amended) -- for the Sarah transcript without metadata analyze
\* reports pauseCount = 3 (the comma, "ah" inside "Sarah" and "er" inside
\* "here") and speechRate = 60.0 (14 word tokens, estimate 28 clamped up to 60).
C10_SarahScenario ==
    \A c \in Callers :
        (pc[c] = "returned" /\ transcript[c] = SarahTranscript
            /\ metadata[c] \in {NoMetadata, EmptyMetadata}) =>
            /\ result[c][1].metrics.pauseCount = 3
            /\ result[c][1].metrics.speechRate = 600
            /\ Len(words[c]) = 14

\* analyze has returned for the Sarah transcript called without metadata
C10_Witness ==
    \E c \in Callers :
        /\ pc[c] = "returned" /\ via[c] = "direct"
        /\ transcript[c] = SarahTranscript /\ metadata[c] = NoMetadata

\* the tier sentences, and the sentences about one metric
TierKinds == {"overall_normal", "overall_mild", "overall_significant"}

MetricKinds == {"speech_rate_slow", "speech_rate_fast", "frequent_pauses",
                "low_vocabulary", "low_fluency"}

\* C12 -- a result whose metrics trigger none of the four conditional
\* sentences (speech rate in [80, 200], pause count <= 10, vocabulary
\* richness >= 0.4, fluency >= 5) has as explanation the tier sentence
\* followed by exactly one "all metrics normal" sentence; a result with at
\* least one of them triggered has no such sentence.
C12_AllNormalSentence ==
    \A c \in Callers :
        result[c] # <<>> =>
            LET m == result[c][1].metrics
                e == result[c][1].explanation
                quiet == /\ m.speechRate >= 800 /\ m.speechRate <= 2000
                         /\ m.pauseCount <= 10
                         /\ m.vocabularyRichness >= 400
                         /\ m.fluencyScore >= 50
            IN  IF quiet
                THEN /\ Len(e) = 2
                     /\ e[1].kind \in TierKinds
                     /\ e[2].kind = "all_normal"
                ELSE \A i \in 1..Len(e) : e[i].kind # "all_normal"

\* C13 -- the first sentence of every explanation is the tier sentence, and
\* its tier is the one of the riskScore reported next to it: normal iff
\* riskScore < 30, mild iff 30 <= riskScore < 70, significant iff
\* riskScore >= 70.
C13_TierOfReportedScore ==
    \A c \in Callers :
        result[c] # <<>> =>
            LET score == result[c][1].riskScore
                e == result[c][1].explanation
            IN  /\ Len(e) >= 1
                /\ e[1].kind \in TierKinds
                /\ e[1].kind = "overall_normal" <=> score < 30
                /\ e[1].kind = "overall_mild" <=> (30 <= score /\ score < 70)
                /\ e[1].kind = "overall_significant" <=> score >= 70
                /\ \A i \in 2..Len(e) : e[i].kind \notin TierKinds

\* a call has returned a riskScore of 70 or more under the third tier
C13_Witness ==
    \E c \in Callers :
        /\ pc[c] = "returned"
        /\ result[c][1].riskScore >= 70
        /\ result[c][1].explanation[1].kind = "overall_significant"

\* C14 -- behind the tier sentence an explanation has a speech-rate sentence
\* iff speechRate < 80 or > 200, a pause sentence iff pauseCount > 10, a
\* vocabulary sentence iff vocabularyRichness < 0.4 and a fluency sentence
\* iff fluencyScore < 5, in that order, each at most once, and nothing else.
C14_ConditionalSentences ==
    \A c \in Callers :
        result[c] # <<>> =>
            LET m == result[c][1].metrics
                e == result[c][1].explanation
                topic(kind) == IF kind \in {"speech_rate_slow", "speech_rate_fast"}
                               THEN "speech_rate" ELSE kind
                topics == [i \in 1..(Len(e) - 1) |-> topic(e[i + 1].kind)]
                expected ==
                    (IF m.speechRate < 800 \/ m.speechRate > 2000
                     THEN <<"speech_rate">> ELSE <<>>)
                    \o (IF m.pauseCount > 10 THEN <<"frequent_pauses">> ELSE <<>>)
                    \o (IF m.vocabularyRichness < 400 THEN <<"low_vocabulary">> ELSE <<>>)
                    \o (IF m.fluencyScore < 50 THEN <<"low_fluency">> ELSE <<>>)
            IN  /\ Len(e) >= 1
                /\ topics = expected

\* a call has returned an explanation with all four conditional sentences
C14_Witness ==
    \E c \in Callers :
        /\ pc[c] = "returned"
        /\ Len(result[c][1].explanation) = 5
        /\ result[c][1].metrics.pauseCount > 10

\* C17 -- in every result a sentence about one metric stands only for a
\* metric whose band added at least 10 points to the score (speech rate
\* >= 10, pauses >= 10, vocabulary >= 15, fluency >= 15); so a riskScore
\* below 10 comes with no such sentence, and k such sentences come with a
\* riskScore of at least min(100, 10 * k).
C17_SentencesBackedByPoints ==
    \A c \in Callers :
        result[c] # <<>> =>
            LET m == features[c][1]
                e == result[c][1].explanation
                score == result[c][1].riskScore
                kinds == {e[i].kind : i \in 1..Len(e)}
                k == Cardinality({i \in 1..Len(e) : e[i].kind \in MetricKinds})
            IN  /\ kinds \cap {"speech_rate_slow", "speech_rate_fast"} # {} =>
                       speech_rate_points(m.speech_rate) >= 10
                /\ "frequent_pauses" \in kinds => pause_count_points(m.pause_count) >= 10
                /\ "low_vocabulary" \in kinds =>
                       vocabulary_points(m.vocabulary_richness) >= 15
                /\ "low_fluency" \in kinds => fluency_points(m.fluency_score) >= 15
                /\ score < 10 => k = 0
                /\ score >= Min(100, 10 * k)

\* a call has returned an explanation with two or more sentences about a
\* metric, the one on fast speech among them, and a score short of the clamp
C17_Witness ==
    \E c \in Callers :
        /\ pc[c] = "returned"
        /\ result[c][1].riskScore < 100
        /\ Len(result[c][1].explanation) >= 3
        /\ \E i \in 1..Len(result[c][1].explanation) :
               result[c][1].explanation[i].kind = "speech_rate_fast"

\* C15 -- the filler count behind fluency_score counts the multi-word
\* phrases (you know, i mean, sort of, kind of) wherever the transcript
\* contains them, next to the single-token fillers: a transcript with
\* "you know" in it has a strictly larger filler count than the same
\* transcript with the phrase replaced by the two words "red rose".
C15_PhrasesCounted ==
    \A c \in Callers :
        LET phrase == <<"y", "o", "u", " ", "k", "n", "o", "w">>
            plain == <<"r", "e", "d", " ", "r", "o", "s", "e">>
            text == transcript[c]
            at == {i \in 1..(Len(text) - Len(phrase) + 1) :
                       SubSeq(str_lower(text), i, i + Len(phrase) - 1) = phrase}
            replaced == SubSeq(text, 1, least(at) - 1) \o plain
                        \o SubSeq(text, least(at) + Len(phrase), Len(text))
        IN  (features[c] # <<>> /\ Cardinality(at) = 1) =>
                filler_count(words[c]) > filler_count(tokenize_words(clean_text(replaced)))

----------------------------------------------------------------------------
(* Properties of calls on the shared analyzer, under SpecConc. *)

\* C4 -- two analyze calls with the same transcript and the same metadata
\* have the same outcome (the same riskScore, explanation and metrics, or the
\* same error), whatever calls with other arguments ran on the analyzer
\* before, in between or at the same time.
C4_SameInputSameOutput ==
    \A c1 \in Callers, c2 \in Callers :
        (/\ pc[c1] \in {"returned", "raised"} /\ pc[c2] \in {"returned", "raised"}
         /\ transcript[c1] = transcript[c2] /\ metadata[c1] = metadata[c2]) =>
            /\ result[c1] = result[c2]
            /\ error[c1] = error[c2]

\* two callers hold the result of calls with the same arguments
C4_Witness ==
    /\ pc[1] = "returned" /\ pc[2] = "returned"
    /\ transcript[1] = ThingTranscript /\ transcript[2] = ThingTranscript
    /\ metadata[1] = metadata[2]
    /\ result[1] # <<>> /\ result[1] = result[2]

\* C9 -- analyze calls interleaved on the shared analyzer each return the
\* result they return when run alone, and the analyzer's filler words,
\* word-finding markers and semantic categories stay what __init__ made them.
C9_ConcurrentCallsIsolated ==
    /\ filler_words = FillerWordsInit
    /\ word_finding_indicators = WordFindingIndicatorsInit
    /\ semantic_categories = SemanticCategoriesInit
    /\ \A c \in Callers :
           pc[c] = "returned" => result[c] = <<run_alone(transcript[c], metadata[c])>>

\* one call has returned while another call, with a different transcript,
\* is between its stages
C9_Witness ==
    \E c1 \in Callers, c2 \in Callers :
        /\ pc[c1] = "returned" /\ result[c1] # <<>>
        /\ pc[c2] \in {"extract", "aggregate", "explain", "return"}
        /\ transcript[c1] # transcript[c2]

----------------------------------------------------------------------------
(* Property of the aggregator, under SpecRisk. *)

\* C8 -- of two feature vectors that agree on every feature but pause_count,
\* the one with the larger pause_count gets a risk score that is not lower.
C8_MonotoneInPauseCount ==
    (/\ risk_score[1] # <<>> /\ risk_score[2] # <<>>
     /\ features[1][1].pause_count <= features[2][1].pause_count
     /\ [features[1][1] EXCEPT !.pause_count = 0] = [features[2][1] EXCEPT !.pause_count = 0]) =>
        risk_score[1][1] <= risk_score[2][1]

\* both vectors are scored, the second with a pause_count raised past 15,
\* and its score is strictly higher
C8_Witness ==
    /\ risk_score[1] # <<>> /\ risk_score[2] # <<>>
    /\ features[1][1].pause_count <= 15 /\ features[2][1].pause_count > 15
    /\ risk_score[1][1] < risk_score[2][1]

----------------------------------------------------------------------------
(* The aggregator at the edges of its bands: two feature vectors that      *)
(* differ in semantic_fluency and syntactic_complexity only, each handed   *)
(* to _calculate_risk_score.                                                *)

BandSpeechRates == {799, 800, 999, 1000, 2000, 2001}

BandPauseCounts == {5, 6, 10, 11, 15, 16}

BandVocabularyValues == {299, 300, 399, 400, 499, 500}

BandFluencyValues == {29, 30, 49, 50, 69, 70}

BandDifficultyValues == {<<0, 1>>, <<1, 40>>, <<1, 2>>}

BandRepetitionValues == {<<0, 1>>, <<3, 4>>}

SemanticFluencyValues == {<<0, 1>>, <<2, 3>>}

SyntacticComplexityValues == {<<0, 1>>, <<7, 15>>}

BandInit ==
    /\ filler_words = FillerWordsInit
    /\ word_finding_indicators = WordFindingIndicatorsInit
    /\ semantic_categories = SemanticCategoriesInit
    /\ pc = [c \in 1..2 |-> "aggregate"]
    /\ via = [c \in 1..2 |-> "direct"]
    /\ transcript = [c \in 1..2 |-> <<>>]
    /\ metadata = [c \in 1..2 |-> NoMetadata]
    /\ words = [c \in 1..2 |-> <<>>]
    /\ sentences = [c \in 1..2 |-> <<>>]
    /\ \E sr \in BandSpeechRates, p \in BandPauseCounts, v \in BandVocabularyValues,
          f \in BandFluencyValues, w \in BandDifficultyValues, r \in BandRepetitionValues,
          sem \in SemanticFluencyValues, syn \in SyntacticComplexityValues :
            features = <<  <<FeatureVector(sr, p, v, f, w, r)>>,
                           <<[FeatureVector(sr, p, v, f, w, r) EXCEPT
                                 !.semantic_fluency = sem,
                                 !.syntactic_complexity = syn]>>  >>
    /\ risk_score = [c \in 1..2 |-> <<>>]
    /\ explanation = [c \in 1..2 |-> <<>>]
    /\ result = [c \in 1..2 |-> <<>>]
    /\ error = [c \in 1..2 |-> <<>>]
    /\ response = [c \in 1..2 |-> <<>>]
    /\ ServiceWithoutKeys

BandNext == \E c \in Callers : Aggregate(c)

SpecBands == BandInit /\ [][BandNext]_vars

\* C11 -- the score the aggregator returns is a whole number nearest to the
\* sum of one band per banded feature (speech_rate <80: 25, [80,100): 15,
\* >200: 10, else 0; pause_count >15: 20, (10,15]: 10, (5,10]: 5, else 0;
\* vocabulary_richness <0.3: 25, [0.3,0.4): 15, [0.4,0.5): 5, else 0;
\* fluency_score <3: 25, [3,5): 15, [5,7): 5, else 0) plus
\* word_finding_difficulty * 20 plus repetition_score * 15, clamped to
\* [0, 100]; each term reads one feature, and two vectors that differ in
\* semantic_fluency and syntactic_complexity only get the same score.
C11_BandTable ==
    /\ \A c \in Callers :
          risk_score[c] # <<>> =>
            LET m == features[c][1]
                sr == m.speech_rate
                p == m.pause_count
                v == m.vocabulary_richness
                f == m.fluency_score
                w == m.word_finding_difficulty
                r == m.repetition_score
                rate_band == IF sr < 800 THEN 25
                             ELSE IF 800 <= sr /\ sr < 1000 THEN 15
                             ELSE IF sr > 2000 THEN 10 ELSE 0
                pause_band == IF p > 15 THEN 20
                              ELSE IF 10 < p /\ p <= 15 THEN 10
                              ELSE IF 5 < p /\ p <= 10 THEN 5 ELSE 0
                vocab_band == IF v < 300 THEN 25
                              ELSE IF 300 <= v /\ v < 400 THEN 15
                              ELSE IF 400 <= v /\ v < 500 THEN 5 ELSE 0
                fluency_band == IF f < 30 THEN 25
                                ELSE IF 30 <= f /\ f < 50 THEN 15
                                ELSE IF 50 <= f /\ f < 70 THEN 5 ELSE 0
                den == w[2] * r[2]
                num == (rate_band + pause_band + vocab_band + fluency_band) * den
                       + 20 * w[1] * r[2] + 15 * r[1] * w[2]
            IN  \E n \in 0..200 :
                    /\ 2 * n * den - 2 * num <= den
                    /\ 2 * num - 2 * n * den <= den
                    /\ risk_score[c][1] = Min(100, Max(0, n))
    /\ \A c1 \in Callers, c2 \in Callers :
          (/\ risk_score[c1] # <<>> /\ risk_score[c2] # <<>>
           /\ [features[c1][1] EXCEPT !.semantic_fluency = <<0, 1>>,
                                      !.syntactic_complexity = <<0, 1>>]
              = [features[c2][1] EXCEPT !.semantic_fluency = <<0, 1>>,
                                        !.syntactic_complexity = <<0, 1>>]) =>
              risk_score[c1][1] = risk_score[c2][1]

\* both vectors are scored, they differ in semantic_fluency and in
\* syntactic_complexity, the speech rate sits on the edge 80.0 of its band,
\* and the score is neither 0 nor clamped
C11_Witness ==
    /\ risk_score[1] # <<>> /\ risk_score[2] # <<>>
    /\ features[1][1].semantic_fluency # features[2][1].semantic_fluency
    /\ features[1][1].syntactic_complexity # features[2][1].syntactic_complexity
    /\ features[1][1].speech_rate = 800
    /\ risk_score[1][1] \in 1..99

----------------------------------------------------------------------------
(* TranscriptionService.transcribe (transcriber.py) and POST /transcribe   *)
(* (app.transcribe_audio).  Confidences are in hundredths, durations in    *)
(* seconds.                                                                 *)

\* the text the HuggingFace Inference API and the OpenAI Whisper API return
HuggingFaceText == "huggingface text"

OpenAIText == "openai text"

\* the texts _mock_transcription returns: one of the three texts of the
\* energy band of the audio (each band stands for its three texts, all of
\* them non-empty), or the fallback text of its except clause
MockTranscripts ==
    {"mock text, higher energy", "mock text, medium energy", "mock text, lower energy",
     "mock text, fallback"}

\* `not transcript`: None or the empty string
no_transcript(t) == t = <<>> \/ t[1] = ""

\* what a remote service does when asked: it returns a text, returns an
\* empty text, or raises; the request can also be cancelled while it awaits
\* the HuggingFace response (asyncio.CancelledError, not an Exception)
HuggingFaceOutcomes == {"text", "empty", "exception", "cancelled"}

OpenAIOutcomes == {"text", "empty", "exception"}

\* librosa's duration of the upload, when it can load it
AudioDurations == {12}

DefaultDuration == 30

\* audio.content_type; the empty one stands for a missing content type
ContentTypes ==
    { <<"a", "u", "d", "i", "o", "/", "w", "e", "b", "m">>,
      <<"a", "p", "p", "l", "i", "c", "a", "t", "i", "o", "n", "/",
        "o", "c", "t", "e", "t", "-", "s", "t", "r", "e", "a", "m">>,
      <<"t", "e", "x", "t", "/", "p", "l", "a", "i", "n">>,
      <<>> }

\* str.startswith
str_startswith(text, prefix) ==
    Len(text) >= Len(prefix) /\ SubSeq(text, 1, Len(prefix)) = prefix

\* the upload is refused: not an audio/ type and not application/octet-stream
invalid_file_type(ct) ==
    /\ ct = <<>> \/ ~str_startswith(ct, <<"a", "u", "d", "i", "o", "/">>)
    /\ ct # <<"a", "p", "p", "l", "i", "c", "a", "t", "i", "o", "n", "/",
              "o", "c", "t", "e", "t", "-", "s", "t", "r", "e", "a", "m">>

\* the suffix of the temporary file, from the content type (the filename is
\* looked at for a missing content type only, which is refused before)
file_ext(ct) ==
    IF str_count(ct, <<"w", "e", "b", "m">>) > 0 THEN ".webm"
    ELSE IF str_count(ct, <<"m", "p", "4">>) > 0 THEN ".mp4"
    ELSE IF str_count(ct, <<"o", "g", "g">>) > 0 THEN ".ogg"
    ELSE IF str_count(ct, <<"m", "4", "a">>) > 0 THEN ".m4a"
    ELSE ".wav"

Requests == DOMAIN t_pc

\* tempfile.NamedTemporaryFile(delete=False, suffix=file_ext).name: a name
\* no existing file has; the name is random, and a name some handler still
\* holds is taken to be not drawn again, so that a name stands for one file
temp_file(suffix) ==
    LET held == {tmp_path[q][1].serial : q \in {x \in Requests : tmp_path[x] # <<>>}}
        taken == {f.serial : f \in files} \cup held
    IN  [serial |-> least({n \in 1..(Cardinality(taken) + 1) : n \notin taken}),
         suffix |-> suffix]


\* the handler from its entry to the end of the with block: the content
\* type is validated, the suffix chosen, the upload written to a new
\* temporary file; the HTTPException for a refused type is raised inside
\* the handler's try block
Upload(r) ==
    /\ t_pc[r] = "idle"
    /\ \E ct \in ContentTypes :
         /\ content_type' = [content_type EXCEPT ![r] = <<ct>>]
         /\ IF invalid_file_type(ct)
            THEN /\ t_error' = [t_error EXCEPT ![r] =
                        <<[type |-> "HTTPException",
                           message |-> "400: Invalid file type. Please upload an audio file."]>>]
                 /\ t_pc' = [t_pc EXCEPT ![r] = "except"]
                 /\ UNCHANGED <<files, tmp_path, remote>>
            ELSE /\ \E hf \in (IF huggingface_api_key THEN HuggingFaceOutcomes ELSE {"unused"}),
                       oa \in (IF openai_api_key THEN OpenAIOutcomes ELSE {"unused"}) :
                        remote' = [remote EXCEPT ![r] = <<[huggingface |-> hf, openai |-> oa]>>]
                 /\ tmp_path' = [tmp_path EXCEPT ![r] = <<temp_file(file_ext(ct))>>]
                 /\ files' = files \cup {temp_file(file_ext(ct))}
                 /\ t_pc' = [t_pc EXCEPT ![r] = "transcribe"]
                 /\ UNCHANGED t_error
    /\ UNCHANGED <<analysis, huggingface_api_key, openai_api_key, t_duration, t_transcript,
                   t_confidence, t_result, t_response>>

\* transcribe is entered: duration = self._get_audio_duration(audio_path),
\* which falls back to 30.0 when librosa cannot load the file;
\* transcript = None; confidence = 0.85
GetAudioDuration(r) ==
    /\ t_pc[r] = "transcribe"
    /\ \E d \in AudioDurations \cup {DefaultDuration} :
         t_duration' = [t_duration EXCEPT ![r] = <<d>>]
    /\ t_transcript' = [t_transcript EXCEPT ![r] = <<>>]
    /\ t_confidence' = [t_confidence EXCEPT ![r] = <<85>>]
    /\ t_pc' = [t_pc EXCEPT ![r] = "huggingface"]
    /\ UNCHANGED <<analysis, huggingface_api_key, openai_api_key, files, content_type, remote,
                   tmp_path, t_result, t_error, t_response>>

\* Method 1: `if self.huggingface_api_key:` try _transcribe_huggingface;
\* an Exception is logged and dropped, a cancellation is not caught and
\* leaves transcribe for the handler's finally clause
TranscribeHuggingFace(r) ==
    /\ t_pc[r] = "huggingface"
    /\ IF ~huggingface_api_key \/ remote[r][1].huggingface = "exception"
       THEN /\ t_pc' = [t_pc EXCEPT ![r] = "openai"]
            /\ UNCHANGED <<t_transcript, t_confidence, t_error>>
       ELSE IF remote[r][1].huggingface = "cancelled"
       THEN /\ t_error' = [t_error EXCEPT ![r] =
                   <<[type |-> "CancelledError", message |-> ""]>>]
            /\ t_pc' = [t_pc EXCEPT ![r] = "finally"]
            /\ UNCHANGED <<t_transcript, t_confidence>>
       ELSE /\ t_transcript' = [t_transcript EXCEPT ![r] =
                   <<IF remote[r][1].huggingface = "text" THEN HuggingFaceText ELSE "">>]
            /\ t_confidence' = [t_confidence EXCEPT ![r] = <<90>>]
            /\ t_pc' = [t_pc EXCEPT ![r] = "openai"]
            /\ UNCHANGED t_error
    /\ UNCHANGED <<analysis, huggingface_api_key, openai_api_key, files, content_type, remote,
                   tmp_path, t_duration, t_result, t_response>>

\* Method 2: `if not transcript and self.openai_api_key:` try
\* _transcribe_openai; an Exception is logged and dropped
TranscribeOpenAI(r) ==
    /\ t_pc[r] = "openai"
    /\ IF no_transcript(t_transcript[r]) /\ openai_api_key
          /\ remote[r][1].openai # "exception"
       THEN /\ t_transcript' = [t_transcript EXCEPT ![r] =
                   <<IF remote[r][1].openai = "text" THEN OpenAIText ELSE "">>]
            /\ t_confidence' = [t_confidence EXCEPT ![r] = <<95>>]
       ELSE UNCHANGED <<t_transcript, t_confidence>>
    /\ t_pc' = [t_pc EXCEPT ![r] = "mock"]
    /\ UNCHANGED <<analysis, huggingface_api_key, openai_api_key, files, content_type, remote,
                   tmp_path, t_duration, t_result, t_error, t_response>>

\* Method 3 without its confidence = 0.85
MockTranscriptionKeepsConfidence(r) ==
    /\ t_pc[r] = "mock"
    /\ IF no_transcript(t_transcript[r])
       THEN \E m \in MockTranscripts : t_transcript' = [t_transcript EXCEPT ![r] = <<m>>]
       ELSE UNCHANGED t_transcript
    /\ t_pc' = [t_pc EXCEPT ![r] = "return"]
    /\ UNCHANGED <<analysis, huggingface_api_key, openai_api_key, files, content_type, remote,
                   tmp_path, t_duration, t_confidence, t_result, t_error, t_response>>

\* Method 3: `if not transcript:` transcript = self._mock_transcription(...),
\* confidence = 0.85
MockTranscription(r) ==
    /\ t_pc[r] = "mock"
    /\ IF no_transcript(t_transcript[r])
       THEN /\ \E m \in MockTranscripts :
                   t_transcript' = [t_transcript EXCEPT ![r] = <<m>>]
            /\ t_confidence' = [t_confidence EXCEPT ![r] = <<85>>]
       ELSE UNCHANGED <<t_transcript, t_confidence>>
    /\ t_pc' = [t_pc EXCEPT ![r] = "return"]
    /\ UNCHANGED <<analysis, huggingface_api_key, openai_api_key, files, content_type, remote,
                   tmp_path, t_duration, t_result, t_error, t_response>>

\* return {"transcript": transcript, "duration": duration, "confidence": confidence}
ReturnTranscription(r) ==
    /\ t_pc[r] = "return"
    /\ t_result' = [t_result EXCEPT ![r] =
            <<[transcript |-> t_transcript[r][1],
               duration |-> t_duration[r][1],
               confidence |-> t_confidence[r][1]]>>]
    /\ t_pc' = [t_pc EXCEPT ![r] = "respond"]
    /\ UNCHANGED <<analysis, huggingface_api_key, openai_api_key, files, content_type, remote,
                   tmp_path, t_duration, t_transcript, t_confidence, t_error, t_response>>

\* the handler after transcribe has returned: the value of
\* `return TranscriptionResponse(...)`, handed out once the finally clause
\* has run
BuildResponse(r) ==
    /\ t_pc[r] = "respond"
    /\ t_response' = [t_response EXCEPT ![r] =
            <<[status |-> 200,
               detail |-> "",
               transcript |-> t_result[r][1].transcript,
               duration |-> t_result[r][1].duration,
               confidence |-> t_result[r][1].confidence]>>]
    /\ t_pc' = [t_pc EXCEPT ![r] = "finally"]
    /\ UNCHANGED <<analysis, huggingface_api_key, openai_api_key, files, content_type, remote,
                   tmp_path, t_duration, t_transcript, t_confidence, t_result, t_error>>

\* a finally clause that removes the file on the way to a response only
CleanupAfterResponse(r) ==
    /\ t_pc[r] = "finally"
    /\ files' = IF t_error[r] = <<>> THEN files \ {tmp_path[r][1]} ELSE files
    /\ t_pc' = [t_pc EXCEPT ![r] = IF t_error[r] = <<>> THEN "responded" ELSE "cancelled"]
    /\ UNCHANGED <<analysis, huggingface_api_key, openai_api_key, content_type, remote,
                   tmp_path, t_duration, t_transcript, t_confidence, t_result, t_error,
                   t_response>>

\* finally: if os.path.exists(tmp_path): os.remove(tmp_path); then the
\* response is handed out, or the cancellation leaves the handler
Cleanup(r) ==
    /\ t_pc[r] = "finally"
    /\ files' = files \ {tmp_path[r][1]}
    /\ t_pc' = [t_pc EXCEPT ![r] = IF t_error[r] = <<>> THEN "responded" ELSE "cancelled"]
    /\ UNCHANGED <<analysis, huggingface_api_key, openai_api_key, content_type, remote,
                   tmp_path, t_duration, t_transcript, t_confidence, t_result, t_error,
                   t_response>>

\* `except Exception as e: raise HTTPException(500, f"Transcription failed: {str(e)}")`
TranscriptionFailed(r) ==
    /\ t_pc[r] = "except"
    /\ t_response' = [t_response EXCEPT ![r] =
            <<[status |-> 500,
               detail |-> <<"Transcription failed: ", t_error[r][1].message>>,
               transcript |-> "", duration |-> 0, confidence |-> 0]>>]
    /\ t_pc' = [t_pc EXCEPT ![r] = "responded"]
    /\ UNCHANGED <<analysis, huggingface_api_key, openai_api_key, files, content_type, remote,
                   tmp_path, t_duration, t_transcript, t_confidence, t_result, t_error>>

\* the handler has finished; its locals are gone, the files are not
Finish(r) ==
    /\ t_pc[r] \in {"responded", "cancelled"}
    /\ t_pc' = [t_pc EXCEPT ![r] = "idle"]
    /\ content_type' = [content_type EXCEPT ![r] = <<>>]
    /\ remote' = [remote EXCEPT ![r] = <<>>]
    /\ tmp_path' = [tmp_path EXCEPT ![r] = <<>>]
    /\ t_duration' = [t_duration EXCEPT ![r] = <<>>]
    /\ t_transcript' = [t_transcript EXCEPT ![r] = <<>>]
    /\ t_confidence' = [t_confidence EXCEPT ![r] = <<>>]
    /\ t_result' = [t_result EXCEPT ![r] = <<>>]
    /\ t_error' = [t_error EXCEPT ![r] = <<>>]
    /\ t_response' = [t_response EXCEPT ![r] = <<>>]
    /\ UNCHANGED <<analysis, huggingface_api_key, openai_api_key, files>>

NumRequests == 1

\* TranscriptionService() with any of the two API keys set or not, and
\* NumRequests requests to /transcribe handled at a time, one after another
\* without end
TranscribeInit ==
    /\ AnalysisIdle({})
    /\ huggingface_api_key \in BOOLEAN
    /\ openai_api_key \in BOOLEAN
    /\ ServiceIdle(1..NumRequests)

TranscribeNext ==
    \/ \E r \in Requests : Upload(r)
    \/ \E r \in Requests : GetAudioDuration(r)
    \/ \E r \in Requests : TranscribeHuggingFace(r)
    \/ \E r \in Requests : TranscribeOpenAI(r)
    \/ \E r \in Requests : MockTranscription(r)
    \/ \E r \in Requests : ReturnTranscription(r)
    \/ \E r \in Requests : BuildResponse(r)
    \/ \E r \in Requests : Cleanup(r)
    \/ \E r \in Requests : TranscriptionFailed(r)
    \/ \E r \in Requests : Finish(r)

SpecTranscribe == TranscribeInit /\ [][TranscribeNext]_vars

----------------------------------------------------------------------------
(* Properties of transcribe and of POST /transcribe, under SpecTranscribe. *)

\* the handlers that are past their call of transcribe
transcribed(r) == t_pc[r] \in {"respond", "finally", "responded"} /\ t_result[r] # <<>>

\* C16 -- transcribe prefers OpenAI Whisper to HuggingFace to the local
\* mock: with both API keys set and both services able to return a text the
\* result carries the OpenAI text and confidence 0.95, the HuggingFace text
\* is returned only when OpenAI has no key or gives no text, and the mock
\* text only when neither service gave a text.
C16_OpenAIFirst ==
    \A r \in Requests :
        transcribed(r) =>
            LET res == t_result[r][1]
                hf_ok == huggingface_api_key /\ remote[r][1].huggingface = "text"
                oa_ok == openai_api_key /\ remote[r][1].openai = "text"
            IN  /\ oa_ok => (res.transcript = OpenAIText /\ res.confidence = 95)
                /\ res.transcript = HuggingFaceText => ~oa_ok
                /\ res.transcript \in MockTranscripts => (~hf_ok /\ ~oa_ok)

\* C18 -- whatever API keys are set and whatever the remote services do
\* when asked (return a text, return an empty text, raise), transcribe
\* raises nothing and returns a result whose transcript is not empty: the
\* text of a service that has its key and returned a text, or else a mock
\* text, with the confidence of the method the text came from (0.90
\* HuggingFace, 0.95 OpenAI, 0.85 mock).
C18_AlwaysATranscript ==
    \A r \in Requests :
        (tmp_path[r] # <<>> /\ remote[r][1].huggingface # "cancelled") =>
            /\ t_error[r] = <<>>
            /\ t_pc[r] \in {"respond", "finally", "responded"} => t_result[r] # <<>>
            /\ t_result[r] # <<>> =>
                  LET res == t_result[r][1]
                      hf_ok == huggingface_api_key /\ remote[r][1].huggingface = "text"
                      oa_ok == openai_api_key /\ remote[r][1].openai = "text"
                  IN  /\ res.transcript # ""
                      /\ res.transcript \in {HuggingFaceText, OpenAIText} \cup MockTranscripts
                      /\ res.transcript = HuggingFaceText => (hf_ok /\ res.confidence = 90)
                      /\ res.transcript = OpenAIText => (oa_ok /\ res.confidence = 95)
                      /\ res.transcript \in MockTranscripts =>
                             (~hf_ok /\ ~oa_ok /\ res.confidence = 85)
                      /\ res.duration \in AudioDurations \cup {DefaultDuration}

\* with both keys set, HuggingFace returned an empty text and OpenAI
\* raised, and the request was answered with a mock text at confidence 0.85
C18_Witness ==
    \E r \in Requests :
        /\ huggingface_api_key /\ openai_api_key
        /\ t_pc[r] = "responded" /\ t_result[r] # <<>>
        /\ remote[r][1].huggingface = "empty" /\ remote[r][1].openai = "exception"
        /\ t_result[r][1].transcript \in MockTranscripts
        /\ t_response[r][1].status = 200 /\ t_response[r][1].confidence = 85

\* C19 -- every temporary upload file that exists belongs to a handler
\* that has written it and has not finished: once a handler has finished,
\* with a response or with the exception transcription left it with, its
\* file is gone, and when no handler is running no file is left.
C19_NoUploadLeftBehind ==
    /\ files \subseteq {tmp_path[r][1] : r \in {q \in Requests :
                             /\ tmp_path[q] # <<>>
                             /\ t_pc[q] \notin {"idle", "responded", "cancelled"}}}
    /\ \A r \in Requests :
          (tmp_path[r] # <<>> /\ t_pc[r] \in {"responded", "cancelled"}) =>
              tmp_path[r][1] \notin files

\* a handler that had written its upload was left by the exception of a
\* cancelled transcription, and its file is gone
C19_Witness ==
    \E r \in Requests :
        /\ t_pc[r] = "cancelled" /\ t_error[r] # <<>>
        /\ tmp_path[r] # <<>> /\ tmp_path[r][1] \notin files

====
